---- MODULE Spec2Model ----
(***************************************************************************)
(* A model of the notebook 2-export-to-finn-and-verify.ipynb, run from    *)
(* its first cell to its last.  Every code statement that changes the     *)
(* notebook's state is one action; pc names the statement that runs next. *)
(* The external libraries (FINN, Brevitas, PyTorch, numpy) are the        *)
(* environment: what they return is chosen from small sets, and each call *)
(* into them may raise.                                                   *)
(***************************************************************************)
EXTENDS Integers, Sequences, FiniteSets, TLC

----------------------------------------------------------------------------
(* Bounds of the model.                                                    *)

\* input_size = 593 in the notebook; the model keeps vectors this short.
input_size == 2

\* n_verification_inputs = 100 in the notebook.
n_verification_inputs == 2

\* The largest number of rows the test set may hold.
MaxRows == 3

\* Raw network outputs range over -RawMax..RawMax eighths.
RawMax == 3

----------------------------------------------------------------------------
(* Program constants.                                                      *)

\* np.pad(current_inp, [(0, 0), (0, 7)]): seven entries after each row.
PadWidth == 7

model_file_path == "cybsec-mlp.onnx"

\* Saving under the name of the file that was loaded.
SavedOverConsumed == model_file_path

verified_model_filename == "cybsec-mlp-verified.onnx"

SucceededMsg == "Verification succeeded. Brevitas and FINN-ONNX execution outputs are identical"

FailedMsg == "Verification failed. Brevitas and FINN-ONNX execution outputs are NOT identical"

\* The cell's transformations with FoldConstants run before InferShapes.
TidyUpFoldFirst == <<"FoldConstants", "InferShapes", "GiveUniqueNodeNames",
                     "GiveReadableTensorNames", "InferDataTypes", "RemoveStaticGraphInputs">>

\* The six tidy-up transformations, in the order of the cell.
TidyUp == <<"InferShapes", "FoldConstants", "GiveUniqueNodeNames",
            "GiveReadableTensorNames", "InferDataTypes", "RemoveStaticGraphInputs">>

----------------------------------------------------------------------------
(* Values.                                                                 *)

\* A floating-point value: a NaN, or a number val on the grid of its kind.
Num(v) == [nan |-> FALSE, val |-> v]

NaN == [nan |-> TRUE, val |-> 0]

\* A tensor: its shape and its entries in row-major order.
Tensor(shape, data) == [shape |-> shape, data |-> data]

\* A name that is not bound yet.
NoTensor == Tensor(<<>>, <<>>)

NoModel == [loaded |-> FALSE, passes |-> <<>>, in_shape |-> <<>>, in_dtype |-> "NONE"]

NoFile == [exists |-> FALSE, model |-> NoModel]

\* The model exported by the training notebook: no transformation applied,
\* the input [1, 600] wide (input_size + PadWidth here), its datatype not
\* annotated, which FINN reads as FLOAT32.
ExportedModel == [loaded |-> TRUE, passes |-> <<>>,
                  in_shape |-> <<1, input_size + PadWidth>>, in_dtype |-> "FLOAT32"]

\* A file left by an earlier run under the name the notebook saves to.
StaleModel == [loaded |-> TRUE, passes |-> <<"Stale">>,
               in_shape |-> <<1, input_size + PadWidth>>, in_dtype |-> "FLOAT32"]

Product(shape) == IF Len(shape) = 0 THEN 0
                  ELSE IF Len(shape) = 1 THEN shape[1] ELSE shape[1] * shape[2]

Bits == {0, 1}

\* The rows a test set may hold: input_size features and the label.
DataRows == [1..(input_size + 1) -> Bits]

Datasets == UNION {[1..r -> DataRows] : r \in 0..MaxRows}

Min(a, b) == IF a < b THEN a ELSE b

\* test_quantized_dataset.data[:n_verification_inputs, :-1]
SliceRows(data, n) ==
    [r \in 1..Min(Len(data), n) |-> [c \in 1..(Len(data[r]) - 1) |-> data[r][c]]]

\* ModelWrapper.transform(T()): a new model with T applied after the others.
ApplyTransform(m, t) == [m EXCEPT !.passes = Append(@, t)]

\* ModelWrapper.set_tensor_datatype(finnonnx_in_tensor_name, dt)
SetInputDatatype(m, dt) == [m EXCEPT !.in_dtype = dt]

----------------------------------------------------------------------------
(* inference_with_brevitas                                                 *)

\* torch.sigmoid in floating point: the logistic function rounded to the
\* nearest representable value, ties to even.  Raw values are k/8 and results
\* are q/8; for |k| <= 5 the nearest eighth to 1/(1 + e^(-k/8)) is the
\* nearest eighth to 1/2 + k/32, which is what is computed here.  A NaN stays
\* a NaN.
Sigmoid(x) ==
    IF x.nan THEN NaN
    ELSE LET n == 16 + x.val
             q == n \div 4
             r == n % 4
         IN  Num(IF r < 2 THEN q
                 ELSE IF r > 2 THEN q + 1
                 ELSE IF q % 2 = 0 THEN q ELSE q + 1)

\* 0.5 on the grid of sigmoid results (eighths).
Half == Num(4)

\* numpy's a > b: FALSE when either side is a NaN.
NpGt(a, b) == ~a.nan /\ ~b.nan /\ a.val > b.val

\* The threshold with >= in place of >.
ThresholdAtLeastHalf(s) == IF ~s.nan /\ s.val >= Half.val THEN 1 ELSE 0

\* (brevitas_output.detach().numpy() > 0.5) * 1
Threshold(s) == IF NpGt(s, Half) THEN 1 ELSE 0

\* 2*brevitas_output - 1
ToBipolar(b) == 2 * b - 1

\* The body of inference_with_brevitas, given what forward returned.
inference_with_brevitas(raw) == ToBipolar(Threshold(Sigmoid(raw)))

RawOutputs == {Num(k) : k \in (0 - RawMax)..RawMax} \cup {NaN}

----------------------------------------------------------------------------
(* inference_with_finn_onnx                                                *)

\* input_tensor[i].reshape((1, 593))
RowTensor(row) == Tensor(<<1, Len(row)>>, row)

\* np.pad(current_inp, [(0, 0), (0, 7)]): zeros after the row.
Pad(t) == Tensor(<<t.shape[1], t.shape[2] + PadWidth>>,
                 t.data \o [j \in 1..PadWidth |-> 0])

\* 2*current_inp - 1
Rescale(t) == Tensor(t.shape, [j \in 1..Len(t.data) |-> 2 * t.data[j] - 1])

CanReshape(t, shape) == Product(shape) = Len(t.data)

\* current_inp.reshape(finnonnx_model_in_shape)
Reshape(t, shape) == Tensor(shape, t.data)

\* The input re-scaled first and padded after.
FinnInputPadLast(t, shape) == Reshape(Pad(Rescale(t)), shape)

\* The tensor inference_with_finn_onnx puts into input_dict.
FinnInput(t, shape) == Reshape(Rescale(Pad(t)), shape)

\* What execute_onnx may return for the output tensor.
FinnOutputs == {Num(-1), Num(0), Num(1), NaN}

\* numpy's a == b and a != b between a float and an integer.
NpEq(a, b) == ~a.nan /\ a.val = b

\* A != that is FALSE on a NaN, as == is.
NpNeOrdered(a, b) == ~a.nan /\ a.val # b

NpNe(a, b) == a.nan \/ a.val # b

----------------------------------------------------------------------------
VARIABLES
    pc,                      \* the statement that runs next
    files,                   \* the model files on disk, by name
    served,                  \* the file Netron serves
    model_for_sim,
    finnonnx_model_in_shape,
    input_tensor,            \* the rows taken from the test set
    brevitas_model,          \* built, state dict loaded, training mode
    verify_range,            \* the next index trange(n) will yield
    i,                       \* the loop index
    current_inp,
    brevitas_output,
    finn_output,
    ok,
    nok,
    description,             \* the progress bar's text
    printed,                 \* the final messages printed
    \* What the run did, recorded to state the properties:
    trace,                   \* the statements started, in order
    failed_at,               \* the statement that raised, or "none"
    visited,                 \* the loop indices taken, in order
    brev_calls,              \* the index of each inference_with_brevitas call
    finn_calls,              \* the index of each inference_with_finn_onnx call
    brevitas_raw,            \* what forward returned in this iteration's call
    finn_input,              \* the tensor last handed to execute_onnx
    exec_model,              \* the model last handed to execute_onnx
    eval_at_call,            \* training mode and weights at the last forward
    agreed                   \* per sample: the two outputs were equal

vars == <<pc, files, served, model_for_sim, finnonnx_model_in_shape, input_tensor,
          brevitas_model, verify_range, i, current_inp, brevitas_output, finn_output, ok, nok,
          description, printed, trace, failed_at, visited, brev_calls, finn_calls,
          brevitas_raw, finn_input, exec_model, eval_at_call, agreed>>

\* Groups of variables an action leaves alone.
modelVars == <<model_for_sim, finnonnx_model_in_shape>>

loopVars == <<verify_range, i, current_inp, brevitas_output, finn_output, ok, nok, description>>

callVars == <<visited, brev_calls, finn_calls, brevitas_raw, finn_input, exec_model,
              eval_at_call, agreed>>

Init ==
    /\ pc = "load_model"
    /\ files \in {[f \in {model_file_path, verified_model_filename} |->
                      IF f = model_file_path
                      THEN (IF have THEN [exists |-> TRUE, model |-> ExportedModel] ELSE NoFile)
                      ELSE (IF stale THEN [exists |-> TRUE, model |-> StaleModel] ELSE NoFile)]
                  : have \in BOOLEAN, stale \in BOOLEAN}
    /\ served = "none"
    /\ model_for_sim = NoModel
    /\ finnonnx_model_in_shape = <<>>
    /\ input_tensor = <<>>
    /\ brevitas_model = [built |-> FALSE, loaded |-> FALSE, training |-> FALSE]
    /\ verify_range = 0
    /\ i = 0
    /\ current_inp = NoTensor
    /\ brevitas_output = 0
    /\ finn_output = Num(0)
    /\ ok = 0
    /\ nok = 0
    /\ description = <<>>
    /\ printed = <<>>
    /\ trace = <<>>
    /\ failed_at = "none"
    /\ visited = <<>>
    /\ brev_calls = <<>>
    /\ finn_calls = <<>>
    /\ brevitas_raw = Num(0)
    /\ finn_input = NoTensor
    /\ exec_model = NoModel
    /\ eval_at_call = [training |-> FALSE, loaded |-> FALSE]
    /\ agreed = <<>>

----------------------------------------------------------------------------
(* Control: a statement ends by going on to the next one, or by raising,   *)
(* which ends the run: no cell has a try/except and a notebook run stops   *)
(* at the first cell that raises.                                          *)

\* The name of the statement at pc; the transformations go by their own.
StepLabel == IF pc = "transform" THEN TidyUp[Len(model_for_sim.passes) + 1] ELSE pc

Advance(next) ==
    /\ pc' = next
    /\ trace' = Append(trace, StepLabel)
    /\ failed_at' = failed_at

Raise ==
    /\ pc' = "failed"
    /\ trace' = Append(trace, StepLabel)
    /\ failed_at' = StepLabel

\* The statements that call into a library or touch a file.
Fallible == {"load_model", "show_netron_1", "transform", "tensor_info", "set_datatype",
             "save", "show_netron_2", "load_dataset", "build_model", "load_state_dict",
             "eval_mode", "brevitas", "finn"}

\* A raised exception caught and the run taken on to the verdict.
FailSwallowed ==
    /\ pc \in Fallible
    /\ pc' = "report"
    /\ trace' = Append(trace, StepLabel)
    /\ failed_at' = StepLabel
    /\ UNCHANGED <<files, served, modelVars, input_tensor, brevitas_model, loopVars,
                   printed, callVars>>

\* An external call raises.
Fail ==
    /\ pc \in Fallible
    /\ Raise
    /\ UNCHANGED <<files, served, modelVars, input_tensor, brevitas_model, loopVars,
                   printed, callVars>>

----------------------------------------------------------------------------
(* Cells 2 to 6: import the model, tidy it up, mark the input, save.       *)

\* model_for_sim = ModelWrapper(model_file_path)
LoadModel ==
    /\ pc = "load_model"
    /\ IF files[model_file_path].exists
       THEN /\ model_for_sim' = files[model_file_path].model
            /\ Advance("show_netron_1")
       ELSE /\ model_for_sim' = model_for_sim
            /\ Raise
    /\ UNCHANGED <<files, served, finnonnx_model_in_shape, input_tensor, brevitas_model,
                   loopVars, printed, callVars>>

\* showInNetron(model_file_path) and showInNetron(verified_model_filename)
ShowInNetron ==
    /\ pc \in {"show_netron_1", "show_netron_2"}
    /\ served' = (IF pc = "show_netron_1" THEN model_file_path ELSE verified_model_filename)
    /\ Advance(IF pc = "show_netron_1" THEN "transform" ELSE "load_dataset")
    /\ UNCHANGED <<files, modelVars, input_tensor, brevitas_model, loopVars, printed,
                   callVars>>

\* model_for_sim = model_for_sim.transform(T()), for the next T of the cell
Transform ==
    /\ pc = "transform"
    /\ model_for_sim' = ApplyTransform(model_for_sim, StepLabel)
    /\ Advance(IF Len(model_for_sim.passes) + 1 = Len(TidyUp) THEN "tensor_info"
               ELSE "transform")
    /\ UNCHANGED <<files, served, finnonnx_model_in_shape, input_tensor, brevitas_model,
                   loopVars, printed, callVars>>

\* finnonnx_model_in_shape = model_for_sim.get_tensor_shape(finnonnx_in_tensor_name)
TensorInfo ==
    /\ pc = "tensor_info"
    /\ finnonnx_model_in_shape' = model_for_sim.in_shape
    /\ Advance("set_datatype")
    /\ UNCHANGED <<files, served, model_for_sim, input_tensor, brevitas_model, loopVars,
                   printed, callVars>>

\* model_for_sim.set_tensor_datatype(finnonnx_in_tensor_name, DataType.BIPOLAR)
SetDatatype ==
    /\ pc = "set_datatype"
    /\ model_for_sim' = SetInputDatatype(model_for_sim, "BIPOLAR")
    /\ Advance("save")
    /\ UNCHANGED <<files, served, finnonnx_model_in_shape, input_tensor, brevitas_model,
                   loopVars, printed, callVars>>

\* model_for_sim.save(verified_model_filename)
Save ==
    /\ pc = "save"
    /\ files' = [files EXCEPT ![verified_model_filename] =
                                 [exists |-> TRUE, model |-> model_for_sim]]
    /\ Advance("show_netron_2")
    /\ UNCHANGED <<served, modelVars, input_tensor, brevitas_model, loopVars, printed,
                   callVars>>

----------------------------------------------------------------------------
(* Cells 7 and 8: the inputs and the Brevitas network.                     *)

\* input_tensor = test_quantized_dataset.data[:n_verification_inputs,:-1]
LoadDataset ==
    /\ pc = "load_dataset"
    /\ \E data \in Datasets : input_tensor' = SliceRows(data, n_verification_inputs)
    /\ Advance("build_model")
    /\ UNCHANGED <<files, served, modelVars, brevitas_model, loopVars, printed, callVars>>

\* brevitas_model = nn.Sequential(...): a new module is in training mode.
BuildModel ==
    /\ pc = "build_model"
    /\ brevitas_model' = [built |-> TRUE, loaded |-> FALSE, training |-> TRUE]
    /\ Advance("load_state_dict")
    /\ UNCHANGED <<files, served, modelVars, input_tensor, loopVars, printed, callVars>>

\* brevitas_model.load_state_dict(trained_state_dict, strict=False)
LoadStateDict ==
    /\ pc = "load_state_dict"
    /\ brevitas_model' = [brevitas_model EXCEPT !.loaded = TRUE]
    /\ Advance("eval_mode")
    /\ UNCHANGED <<files, served, modelVars, input_tensor, loopVars, printed, callVars>>

----------------------------------------------------------------------------
(* Cell 11: the comparison loop.                                           *)

\* The cell without its brevitas_model.eval() line.
EvalModeLeftOut ==
    /\ pc = "eval_mode"
    /\ verify_range' = 0
    /\ Advance("init_counters")
    /\ UNCHANGED <<files, served, modelVars, input_tensor, brevitas_model, i, current_inp,
                   brevitas_output, finn_output, ok, nok, description, printed, callVars>>

\* verify_range = trange(n_verification_inputs, ...); brevitas_model.eval()
EvalMode ==
    /\ pc = "eval_mode"
    /\ verify_range' = 0
    /\ brevitas_model' = [brevitas_model EXCEPT !.training = FALSE]
    /\ Advance("init_counters")
    /\ UNCHANGED <<files, served, modelVars, input_tensor, i, current_inp, brevitas_output,
                   finn_output, ok, nok, description, printed, callVars>>

\* ok = 0; nok = 0
InitCounters ==
    /\ pc = "init_counters"
    /\ ok' = 0
    /\ nok' = 0
    /\ Advance("loop_head")
    /\ UNCHANGED <<files, served, modelVars, input_tensor, brevitas_model, verify_range, i,
                   current_inp, brevitas_output, finn_output, description, printed,
                   callVars>>

\* The loop over range(n_verification_inputs + 1).
LoopHeadOneMore ==
    /\ pc = "loop_head"
    /\ IF verify_range > n_verification_inputs
       THEN /\ Advance("report")
            /\ UNCHANGED <<verify_range, i, current_inp, visited>>
       ELSE /\ verify_range' = verify_range + 1
            /\ i' = verify_range
            /\ visited' = Append(visited, verify_range)
            /\ IF verify_range + 1 <= Len(input_tensor)
               THEN /\ current_inp' = RowTensor(input_tensor[verify_range + 1])
                    /\ Advance("brevitas")
               ELSE /\ current_inp' = current_inp
                    /\ Raise
    /\ UNCHANGED <<files, served, modelVars, input_tensor, brevitas_model, brevitas_output,
                   finn_output, ok, nok, description, printed, brev_calls, finn_calls,
                   brevitas_raw, finn_input, exec_model, eval_at_call, agreed>>

\* for i in verify_range: current_inp = input_tensor[i].reshape((1, 593))
\* Python counts rows from 0: row i is input_tensor[i + 1] here.  An index
\* past the last row raises IndexError.
LoopHead ==
    /\ pc = "loop_head"
    /\ IF verify_range >= n_verification_inputs
       THEN /\ Advance("report")
            /\ UNCHANGED <<verify_range, i, current_inp, visited>>
       ELSE /\ verify_range' = verify_range + 1
            /\ i' = verify_range
            /\ visited' = Append(visited, verify_range)
            /\ IF verify_range + 1 <= Len(input_tensor)
               THEN /\ current_inp' = RowTensor(input_tensor[verify_range + 1])
                    /\ Advance("brevitas")
               ELSE /\ current_inp' = current_inp
                    /\ Raise
    /\ UNCHANGED <<files, served, modelVars, input_tensor, brevitas_model, brevitas_output,
                   finn_output, ok, nok, description, printed, brev_calls, finn_calls,
                   brevitas_raw, finn_input, exec_model, eval_at_call, agreed>>

\* brevitas_output = inference_with_brevitas(current_inp)
BrevitasInference ==
    /\ pc = "brevitas"
    /\ \E raw \in RawOutputs :
          /\ brevitas_raw' = raw
          /\ brevitas_output' = inference_with_brevitas(raw)
    /\ brev_calls' = Append(brev_calls, i)
    /\ eval_at_call' = [training |-> brevitas_model.training,
                        loaded |-> brevitas_model.loaded]
    /\ Advance("finn")
    /\ UNCHANGED <<files, served, modelVars, input_tensor, brevitas_model, verify_range, i,
                   current_inp, finn_output, ok, nok, description, printed, visited,
                   finn_calls, finn_input, exec_model, agreed>>

\* finn_output = inference_with_finn_onnx(current_inp)
FinnInference ==
    /\ pc = "finn"
    /\ IF CanReshape(Rescale(Pad(current_inp)), finnonnx_model_in_shape)
       THEN /\ finn_input' = FinnInput(current_inp, finnonnx_model_in_shape)
            /\ exec_model' = model_for_sim
            /\ finn_calls' = Append(finn_calls, i)
            /\ \E out \in FinnOutputs :
                  /\ finn_output' = out
                  /\ agreed' = Append(agreed, ~out.nan /\ out.val = brevitas_output)
            /\ Advance("tally_ok")
       ELSE /\ UNCHANGED <<finn_input, exec_model, finn_calls, finn_output, agreed>>
            /\ Raise
    /\ UNCHANGED <<files, served, modelVars, input_tensor, brevitas_model, verify_range, i,
                   current_inp, brevitas_output, ok, nok, description, printed, visited,
                   brev_calls, brevitas_raw, eval_at_call>>

\* ok += 1 if finn_output == brevitas_output else 0
TallyOk ==
    /\ pc = "tally_ok"
    /\ ok' = ok + (IF NpEq(finn_output, brevitas_output) THEN 1 ELSE 0)
    /\ Advance("tally_nok")
    /\ UNCHANGED <<files, served, modelVars, input_tensor, brevitas_model, verify_range, i,
                   current_inp, brevitas_output, finn_output, nok, description, printed,
                   callVars>>

\* nok += 1 if finn_output != brevitas_output else 0
TallyNok ==
    /\ pc = "tally_nok"
    /\ nok' = nok + (IF NpNe(finn_output, brevitas_output) THEN 1 ELSE 0)
    /\ Advance("progress")
    /\ UNCHANGED <<files, served, modelVars, input_tensor, brevitas_model, verify_range, i,
                   current_inp, brevitas_output, finn_output, ok, description, printed,
                   callVars>>

\* verify_range.set_description("ok %d nok %d" % (ok, nok)); verify_range.refresh()
\* The iteration is over: the record of what its forward call returned is
\* cleared (the value was local to inference_with_brevitas).
Progress ==
    /\ pc = "progress"
    /\ description' = <<ok, nok>>
    /\ brevitas_raw' = Num(0)
    /\ Advance("loop_head")
    /\ UNCHANGED <<files, served, modelVars, input_tensor, brevitas_model, verify_range, i,
                   current_inp, brevitas_output, finn_output, ok, nok, printed, visited,
                   brev_calls, finn_calls, finn_input, exec_model, eval_at_call, agreed>>

----------------------------------------------------------------------------
(* Cell 13: the verdict.                                                   *)

\* The verdict with the test ok > 0.
ReportIfAnyOk ==
    /\ pc = "report"
    /\ printed' = Append(printed, IF ok > 0 THEN SucceededMsg ELSE FailedMsg)
    /\ Advance("done")
    /\ UNCHANGED <<files, served, modelVars, input_tensor, brevitas_model, loopVars,
                   callVars>>

\* if ok == n_verification_inputs: print(succeeded) else: print(failed)
Report ==
    /\ pc = "report"
    /\ printed' = Append(printed, IF ok = n_verification_inputs THEN SucceededMsg
                                  ELSE FailedMsg)
    /\ Advance("done")
    /\ UNCHANGED <<files, served, modelVars, input_tensor, brevitas_model, loopVars,
                   callVars>>

Next ==
    \/ LoadModel
    \/ ShowInNetron
    \/ Transform
    \/ TensorInfo
    \/ SetDatatype
    \/ Save
    \/ LoadDataset
    \/ BuildModel
    \/ LoadStateDict
    \/ EvalMode
    \/ InitCounters
    \/ LoopHead
    \/ BrevitasInference
    \/ FinnInference
    \/ TallyOk
    \/ TallyNok
    \/ Progress
    \/ Report
    \/ Fail

Spec == Init /\ [][Next]_vars

----------------------------------------------------------------------------
(* Properties.                                                             *)

IsPrefix(s, t) == Len(s) <= Len(t) /\ \A k \in 1..Len(s) : s[k] = t[k]

\* The indices 0 .. n-1 in increasing order.
Indices(n) == [k \in 1..n |-> k - 1]

\* How many entries of the sequence s equal b.
CountOf(s, b) == Cardinality({k \in 1..Len(s) : s[k] = b})

\* The statements of the loop's body.
InBody == pc \in {"brevitas", "finn", "tally_ok", "tally_nok", "progress"}

\* C1: a run that reaches its end has printed exactly one message, the
\* succeeded one if and only if the FINN-ONNX output equalled the Brevitas
\* output for every one of the n_verification_inputs samples and the failed
\* one if at least one sample disagreed; before the end nothing is printed.
VerdictMatchesAgreement ==
    /\ pc # "done" => printed = <<>>
    /\ pc = "done" =>
          /\ Len(agreed) = n_verification_inputs
          /\ Len(printed) = 1
          /\ printed[1] \in {SucceededMsg, FailedMsg}
          /\ printed[1] = SucceededMsg <=> \A k \in 1..Len(agreed) : agreed[k]
          /\ printed[1] = FailedMsg <=> \E k \in 1..Len(agreed) : ~agreed[k]

\* A finished run with samples that agreed and one that did not.
VerdictWitness ==
    /\ pc = "done"
    /\ printed = <<FailedMsg>>
    /\ \E k \in 1..Len(agreed) : agreed[k]
    /\ \E k \in 1..Len(agreed) : ~agreed[k]

\* The order of the steps up to the loop, as the claim C2 gives it (with the
\* two Netron cells and the dataset cell where the notebook has them).
ClaimedPrelude ==
    <<"load_model", "show_netron_1",
      "InferShapes", "FoldConstants", "GiveUniqueNodeNames", "GiveReadableTensorNames",
      "InferDataTypes", "RemoveStaticGraphInputs",
      "tensor_info", "set_datatype", "save", "show_netron_2",
      "load_dataset", "build_model", "load_state_dict", "eval_mode", "init_counters">>

\* C2: the steps run in the fixed order load, the six transformations
\* (InferShapes, FoldConstants, GiveUniqueNodeNames, GiveReadableTensorNames,
\* InferDataTypes, RemoveStaticGraphInputs, each on the result of the one
\* before), BIPOLAR marking, save, Brevitas network and state dict, loop; no
\* statement of the loop starts before all of them, and the model every
\* execute_onnx call gets is the loaded one with the six transformations
\* applied in that order and the input marked BIPOLAR.
StepsInClaimedOrder ==
    /\ Len(trace) <= Len(ClaimedPrelude) => IsPrefix(trace, ClaimedPrelude)
    /\ Len(trace) > Len(ClaimedPrelude) =>
          /\ IsPrefix(ClaimedPrelude, trace)
          /\ \A k \in (Len(ClaimedPrelude) + 1)..Len(trace) :
                trace[k] \in {"loop_head", "brevitas", "finn", "tally_ok", "tally_nok",
                              "progress", "report"}
    /\ (InBody \/ finn_calls # <<>>) => Len(trace) >= Len(ClaimedPrelude)
    /\ finn_calls # <<>> =>
          /\ exec_model.loaded
          /\ exec_model.passes = <<"InferShapes", "FoldConstants", "GiveUniqueNodeNames",
                                   "GiveReadableTensorNames", "InferDataTypes",
                                   "RemoveStaticGraphInputs">>
          /\ exec_model.in_dtype = "BIPOLAR"

\* execute_onnx has just returned for the second sample.
ExecWitness == pc = "tally_ok" /\ Len(finn_calls) = 2

\* C3: the tensor handed to execute_onnx has shape [1, input_size + 7], every
\* entry in {-1, +1}: entry j of the first input_size is 2*x[j] - 1 for the
\* sample x of that call, and the 7 padding entries are all -1.
FinnInputIsPaddedBipolar ==
    finn_calls # <<>> =>
        LET x == input_tensor[finn_calls[Len(finn_calls)] + 1]
        IN  /\ \A j \in 1..Len(x) : x[j] \in {0, 1}
            /\ Len(x) = input_size
            /\ finn_input.shape = <<1, input_size + 7>>
            /\ Len(finn_input.data) = input_size + 7
            /\ \A j \in 1..(input_size + 7) : finn_input.data[j] \in {-1, 1}
            /\ \A j \in 1..input_size : finn_input.data[j] = 2 * x[j] - 1
            /\ \A j \in (input_size + 1)..(input_size + 7) : finn_input.data[j] = -1

\* A sample with a 1 and a 0 in it has been handed over.
FinnInputWitness ==
    /\ finn_calls # <<>>
    /\ finn_input.data[1] = 1
    /\ finn_input.data[input_size] = -1

\* C4: when a call raises, the run stops at that statement: it is the last one
\* started, it is not started again (it has been started once, or once per
\* iteration begun when it is a statement of the loop), no statement can run
\* after it, and no final message has been printed.
FailureStopsRun ==
    /\ pc = "failed" <=> failed_at # "none"
    /\ failed_at # "none" =>
          /\ trace[Len(trace)] = failed_at
          /\ ~ENABLED Next
          /\ printed = <<>>
          /\ CountOf(trace, failed_at) =
                 (IF Len(trace) <= Len(ClaimedPrelude) THEN 1 ELSE Len(visited))

\* execute_onnx raised for the second sample.
FailureWitness == failed_at = "finn" /\ Len(finn_calls) = 1 /\ Len(brev_calls) = 2

\* The file written by the training notebook, and the saved one.
ExportedFile == [exists |-> TRUE, model |-> ExportedModel]

\* C5: the normalized model is written under a name different from the
\* consumed file's; the consumed file keeps its content through every step;
\* the other file changes only by the save, which writes the model with the
\* six transformations applied and the input datatype BIPOLAR.
SavedApartFromConsumed ==
    /\ model_file_path # verified_model_filename
    /\ files[model_file_path] \in {NoFile, ExportedFile}
    /\ model_for_sim.loaded => files[model_file_path] = ExportedFile
    /\ LET saved == \E k \in 1..Len(trace) : trace[k] = "save" /\ failed_at # "save"
       IN  IF saved
           THEN /\ files[verified_model_filename].exists
                /\ files[verified_model_filename].model.passes = <<"InferShapes", "FoldConstants",
                          "GiveUniqueNodeNames", "GiveReadableTensorNames",
                          "InferDataTypes", "RemoveStaticGraphInputs">>
                /\ files[verified_model_filename].model.in_dtype = "BIPOLAR"
           ELSE files[verified_model_filename] \in
                    {NoFile, [exists |-> TRUE, model |-> StaleModel]}

\* The save has run over a file an earlier run left.
SavedWitness ==
    /\ pc = "show_netron_2"
    /\ files[verified_model_filename].model.in_dtype = "BIPOLAR"
    /\ files[model_file_path] = ExportedFile

\* C6: ok and nok are never negative; ok counts the samples that agreed and
\* nok those that did not, so after k completed iterations ok + nok = k; an
\* iteration adds 1 to exactly one of them and takes nothing from the other
\* (the progress text still holds the counts of the iteration before); after
\* the loop ok + nok = n_verification_inputs and ok = n_verification_inputs
\* exactly when nok = 0.
CountersTally ==
    /\ ok >= 0 /\ nok >= 0
    /\ pc \notin {"tally_ok", "tally_nok"} =>
          /\ ok = CountOf(agreed, TRUE)
          /\ nok = CountOf(agreed, FALSE)
          /\ ok + nok = Len(agreed)
    /\ pc = "progress" =>
          LET before == IF description = <<>> THEN <<0, 0>> ELSE description
          IN  /\ ok + nok = before[1] + before[2] + 1
              /\ ok \in {before[1], before[1] + 1}
              /\ nok \in {before[2], before[2] + 1}
    /\ pc \in {"report", "done"} =>
          /\ ok + nok = n_verification_inputs
          /\ ok = n_verification_inputs <=> nok = 0

\* The loop is over with a sample on each side of the tally.
CountersWitness == pc = "report" /\ ok >= 1 /\ nok >= 1

\* The longest run: the prelude, six statements per sample, the loop's exit
\* and the report.
MaxSteps == Len(ClaimedPrelude) + 6 * n_verification_inputs + 2

\* C7: the loop takes the indices 0 .. n_verification_inputs-1 in increasing
\* order, each once, and ends: a run is never stuck before its end, takes a
\* bounded number of steps, and leaves the loop after exactly
\* n_verification_inputs iterations unless a call raised; the loop itself
\* raises only when the dataset has fewer rows than that.  In an iteration
\* the Brevitas inference runs first, then the FINN inference, each once and
\* on sample i, and the tally starts only after both have returned.
LoopVisitsEachSampleOnce ==
    /\ pc \in {"done", "failed"} \/ ENABLED Next
    /\ Len(trace) <= MaxSteps
    /\ IsPrefix(visited, Indices(n_verification_inputs))
    /\ IsPrefix(brev_calls, visited)
    /\ IsPrefix(finn_calls, brev_calls)
    /\ Len(visited) <= Len(finn_calls) + 1
    /\ pc = "brevitas" =>
          /\ Len(brev_calls) + 1 = Len(visited)
          /\ current_inp.data = input_tensor[i + 1]
    /\ pc = "finn" =>
          /\ Len(finn_calls) + 1 = Len(brev_calls)
          /\ current_inp.data = input_tensor[i + 1]
    /\ pc \in {"tally_ok", "tally_nok", "progress"} =>
          /\ Len(finn_calls) = Len(visited)
          /\ Len(brev_calls) = Len(visited)
          /\ finn_calls[Len(finn_calls)] = i
          /\ brev_calls[Len(brev_calls)] = i
    /\ pc \in {"report", "done"} =>
          /\ visited = Indices(n_verification_inputs)
          /\ brev_calls = visited
          /\ finn_calls = visited
    /\ failed_at = "loop_head" => Len(input_tensor) < n_verification_inputs

\* A run over a dataset with enough rows has finished.
LoopWitness == pc = "done" /\ visited = Indices(n_verification_inputs)

\* From the return of inference_with_brevitas to the end of the iteration.
AfterBrevitas == pc \in {"finn", "tally_ok", "tally_nok", "progress"}

\* C8 as stated: the result is +1 exactly when the sigmoid of the network
\* output is above 0.5, and that is exactly when the raw output is above 0.
BrevitasPositiveIffRawPositive ==
    AfterBrevitas =>
        LET s == Sigmoid(brevitas_raw)
        IN  /\ brevitas_output \in {-1, 1}
            /\ brevitas_output = 1 <=> (~s.nan /\ s.val > 4)
            /\ (~s.nan /\ s.val > 4) <=> (~brevitas_raw.nan /\ brevitas_raw.val > 0)

\* C8, amended: inference_with_brevitas returns -1 or +1; +1 exactly when the
\* sigmoid of the network output, as computed in floating point, is above 0.5,
\* and -1 otherwise, also when that sigmoid is exactly 0.5 or a NaN.  A +1
\* means the raw output was above 0; a raw output of 0 or below, or a NaN,
\* gives -1.
BrevitasThresholdsSigmoid ==
    AfterBrevitas =>
        LET s == Sigmoid(brevitas_raw)
        IN  /\ brevitas_output \in {-1, 1}
            /\ brevitas_output = 1 <=> (~s.nan /\ s.val > 4)
            /\ (s.nan \/ s.val = 4) => brevitas_output = -1
            /\ brevitas_output = 1 => (~brevitas_raw.nan /\ brevitas_raw.val > 0)
            /\ (brevitas_raw.nan \/ brevitas_raw.val <= 0) => brevitas_output = -1

\* A raw output above 0 whose sigmoid is 0.5 in floating point: the result is -1.
BrevitasWitness ==
    /\ pc = "finn"
    /\ ~brevitas_raw.nan /\ brevitas_raw.val > 0
    /\ Sigmoid(brevitas_raw) = Half
    /\ brevitas_output = -1

\* C9: the network has its state dict loaded and is in evaluation mode at
\* every forward call, and from the first statement of the loop to the end of
\* the run nothing puts it back in training mode.
EvalModeAtEveryCall ==
    /\ brev_calls # <<>> => (~eval_at_call.training /\ eval_at_call.loaded)
    /\ (InBody \/ pc \in {"init_counters", "loop_head", "report", "done"}) =>
          /\ brevitas_model.built
          /\ brevitas_model.loaded
          /\ ~brevitas_model.training
    /\ pc \in {"load_state_dict", "eval_mode"} => brevitas_model.training

\* The second forward call has returned.
EvalWitness == pc = "finn" /\ Len(brev_calls) = 2 /\ ~brevitas_model.training

====
